---- MODULE Spec2Model ----
(***************************************************************************)
(* Model of src/src/collection.py: the in-memory accumulator               *)
(* (InvertedIndex + Collection.documents), the two mongo collections it    *)
(* flushes to, and the boolean and vector query engines.                   *)
(*                                                                         *)
(* Python dicts are insertion ordered, and the order is observable (it is  *)
(* the order of the records pushed to mongo and of the score table S), so  *)
(* a dict is modelled as a sequence of entries with unique keys.           *)
(*                                                                         *)
(* Floats are modelled in fixed point, in thousandths: 1.0 is 1000.        *)
(***************************************************************************)
EXTENDS Integers, Sequences, FiniteSets, TLC

VARIABLES
  index,           \* self.index: term -> ordered dict of [doc, count]
  documents,       \* self.documents: ordered dict of [doc, L_d]
  mInvertedIndex,  \* mongo collection 'invertedIndex': term -> list 'docs'
  mDocuments,      \* mongo collection 'documents': list of [doc, L_d] records
  call             \* the most recent call of a Collection method and what it returned

vars == <<index, documents, mInvertedIndex, mDocuments, call>>

\* Cap on the number of norm records held in memory and in the store together.
MaxRecords == 4

(***************************************************************************)
(* The corpus and the inputs.                                              *)
(***************************************************************************)
Docs == {"docA", "docB", "docC"}

Terms == {"cat", "dog", "bird"}

\* d.tokenize().items(): docA is "cat dog cat", docB is "dog", docC has no
\* token at all. A document's text does not change between two reads.
tokenize(d) ==
  CASE d = "docA" -> << [term |-> "cat", count |-> 2], [term |-> "dog", count |-> 1] >>
    [] d = "docB" -> << [term |-> "dog", count |-> 1] >>
    [] OTHER      -> << >>

\* textpreprocess(q) of the vector queries tried: token lists.
VectorQueries ==
  { << >>, <<"dog">>, <<"bird">>, <<"cat", "dog">>, <<"dog", "dog">> }

\* Thresholds (thousandths; 200 is the default 0.2) and top values tried.
Aboves == {0, 200, 600}

Tops == {-1, 0, 1, 2}

\* textpreprocess(q) of the boolean queries tried, as token lists.
BooleanQueries ==
  { <<"cat">>, <<"bird">>, <<"NOT", "cat">>, <<"cat", "AND", "dog">>,
    <<"NOT", "bird", "OR", "cat">> }

(***************************************************************************)
(* Results of calls: a value, or a raised exception with the line raising. *)
(***************************************************************************)
Ok(v) == [kind |-> "ok", val |-> v, err |-> "", line |-> 0]

Raise(e, l) == [kind |-> "raise", val |-> 0, err |-> e, line |-> l]

\* The value kept in call.ret: the same fields whatever the method returned.
NoRet == [kind |-> "ok", err |-> "", line |-> 0, docs |-> {}, pairs |-> << >>]

RetDocs(s) == [NoRet EXCEPT !.docs = s]

RetPairs(p) == [NoRet EXCEPT !.pairs = p]

RetRaise(r) == [NoRet EXCEPT !.kind = "raise", !.err = r.err, !.line = r.line]

NoCall ==
  [op |-> "init", d |-> "", q |-> << >>, above |-> 0, top |-> 0, skipped |-> FALSE, ret |-> NoRet]

(***************************************************************************)
(* math.log and math.sqrt, in thousandths.                                 *)
(***************************************************************************)
LnTable ==
  << 0, 693, 1099, 1386, 1609, 1792, 1946, 2079, 2197, 2303, 2398, 2485, 2565, 2639, 2708, 2773 >>

\* math.log(n) for an integer n >= 1
log(n) == LnTable[n]

RECURSIVE isqrt(_, _, _)
isqrt(x, lo, hi) ==
  IF lo >= hi THEN lo
  ELSE LET mid == (lo + hi + 1) \div 2
       IN IF mid * mid <= x THEN isqrt(x, mid, hi) ELSE isqrt(x, lo, mid - 1)

\* math.sqrt(x), x and the result in thousandths
sqrt(x) == isqrt(x * 1000, 0, x + 1000)

(***************************************************************************)
(* InvertedIndex.add_document                                              *)
(***************************************************************************)
Range(s) == { s[i] : i \in 1..Len(s) }

Keys(dict) == { dict[i].doc : i \in 1..Len(dict) }

\* self[term][d] = count on the ordered dict of one term
SetPosting(docs, d, count) ==
  IF d \in Keys(docs)
  THEN [i \in 1..Len(docs) |-> IF docs[i].doc = d THEN [doc |-> d, count |-> count] ELSE docs[i]]
  ELSE Append(docs, [doc |-> d, count |-> count])

\* self[term][d] += count
AccumulatePosting(docs, d, count) ==
  IF d \in Keys(docs)
  THEN [i \in 1..Len(docs) |->
          IF docs[i].doc = d THEN [doc |-> d, count |-> docs[i].count + count] ELSE docs[i]]
  ELSE Append(docs, [doc |-> d, count |-> count])

\* The summand of l_d with the count == 1 branch leaving l_d alone.
l_d_term_skip_one(count) ==
  IF count = 1 THEN 0 ELSE ((1000 + log(count)) * (1000 + log(count))) \div 1000

\* The summand of l_d for one term
l_d_term(count) ==
  IF count = 1 THEN 1000 ELSE ((1000 + log(count)) * (1000 + log(count))) \div 1000

RECURSIVE add_terms(_, _, _, _)
add_terms(idx, d, items, l_d) ==
  IF items = << >> THEN [index |-> idx, l_d |-> l_d]
  ELSE LET term  == Head(items).term
           count == Head(items).count
           old   == IF term \in DOMAIN idx THEN idx[term] ELSE << >>
           idx2  == [t \in DOMAIN idx \cup {term} |->
                       IF t = term THEN SetPosting(old, d, count) ELSE idx[t]]
       IN add_terms(idx2, d, Tail(items), l_d + l_d_term(count))

\* add_document(d) on the index idx: the new index and the returned L_d
add_document(idx, d) ==
  LET r == add_terms(idx, d, tokenize(d), 0)
  IN [index |-> r.index, L_d |-> sqrt(r.l_d)]

RECURSIVE add_terms_accumulate(_, _, _)
add_terms_accumulate(idx, d, items) ==
  IF items = << >> THEN idx
  ELSE LET term  == Head(items).term
           old   == IF term \in DOMAIN idx THEN idx[term] ELSE << >>
           idx2  == [t \in DOMAIN idx \cup {term} |->
                       IF t = term THEN AccumulatePosting(old, d, Head(items).count) ELSE idx[t]]
       IN add_terms_accumulate(idx2, d, Tail(items))

(***************************************************************************)
(* Collection.read_document                                                *)
(***************************************************************************)
\* read_document without the membership test, on an index that counts
\* occurrences up.
read_document_unguarded(d) ==
  LET r == add_document(index, d)
  IN [index     |-> add_terms_accumulate(index, d, tokenize(d)),
      documents |-> IF d \in Keys(documents)
                    THEN [i \in 1..Len(documents) |->
                            IF documents[i].doc = d THEN [doc |-> d, L_d |-> r.L_d]
                            ELSE documents[i]]
                    ELSE Append(documents, [doc |-> d, L_d |-> r.L_d]),
      skipped   |-> FALSE]

\* read_document(d): the tables after the call
read_document(d) ==
  IF d \notin Keys(documents)
  THEN LET r == add_document(index, d)
       IN [index     |-> r.index,
           documents |-> Append(documents, [doc |-> d, L_d |-> r.L_d]),
           skipped   |-> FALSE]
  ELSE [index |-> index, documents |-> documents, skipped |-> TRUE]

ReadDocument(d) ==
  /\ d \in Keys(documents) \/ Len(documents) + Len(mDocuments) < MaxRecords
  /\ LET r == read_document(d)
     IN /\ index' = r.index
        /\ documents' = r.documents
        /\ call' = [NoCall EXCEPT !.op = "read_document", !.d = d, !.skipped = r.skipped]
  /\ UNCHANGED <<mInvertedIndex, mDocuments>>

(***************************************************************************)
(* Collection.flush_to_mongo                                               *)
(***************************************************************************)
\* update({'term': term}, {"$push": {"docs": {"$each": mdocs}}}, upsert=True)
\* on the 'docs' list of the term's record (empty when the record is new)
update_push(old, mdocs) == old \o mdocs

\* The two collections after flush_to_mongo
flush_to_mongo ==
  IF DOMAIN index # {} /\ Len(documents) > 0
  THEN [invertedIndex |->
          [t \in DOMAIN mInvertedIndex \cup DOMAIN index |->
             LET old == IF t \in DOMAIN mInvertedIndex THEN mInvertedIndex[t] ELSE << >>
             IN IF t \in DOMAIN index THEN update_push(old, index[t]) ELSE old],
        documents |-> mDocuments \o documents]
  ELSE [invertedIndex |-> mInvertedIndex, documents |-> mDocuments]

FlushToMongo ==
  /\ LET r == flush_to_mongo
     IN /\ mInvertedIndex' = r.invertedIndex
        /\ mDocuments' = r.documents
  /\ index' = << >>
  /\ documents' = << >>
  /\ call' = [NoCall EXCEPT !.op = "flush_to_mongo"]

(***************************************************************************)
(* The store lookups                                                       *)
(***************************************************************************)
\* self.mongo_db[invertedIndex].count(): one record per term
get_documents_count == Cardinality(DOMAIN mInvertedIndex)

\* self.mongo_db[documents].count(): one record per flushed norm
get_index_count == Len(mDocuments)

get_documents_for_term(term) ==
  IF term \in DOMAIN mInvertedIndex THEN Ok(mInvertedIndex[term]) ELSE Raise("UnknownTerm", 78)

\* get_only_documents_for_term written over the raising lookup
get_only_documents_for_term_strict(term) ==
  LET ans == get_documents_for_term(term)
  IN IF ans.kind = "ok" THEN Ok(Keys(ans.val)) ELSE ans

get_only_documents_for_term(term) ==
  IF term \in DOMAIN mInvertedIndex THEN Ok(Keys(mInvertedIndex[term])) ELSE Ok({})

get_documents_not_in(other_doc_set) ==
  { mDocuments[i].doc : i \in { j \in 1..Len(mDocuments) : mDocuments[j].doc \notin other_doc_set } }

\* find_one returns the first matching record
get_document_L_d(doc) ==
  IF doc \in Keys(mDocuments)
  THEN LET i == CHOOSE j \in 1..Len(mDocuments) :
                  /\ mDocuments[j].doc = doc
                  /\ \A k \in 1..(j - 1) : mDocuments[k].doc # doc
       IN Ok(mDocuments[i].L_d)
  ELSE Raise("UnknownDocument", 93)

(***************************************************************************)
(* Collection.processquery_boolean                                         *)
(***************************************************************************)
term_documents(term) == get_only_documents_for_term(term)

rest_documents(documents_set) == Keys(documents) \ documents_set

Positions(toks, word) == { i \in 1..Len(toks) : toks[i] = word }

First(S) == CHOOSE i \in S : \A j \in S : i <= j

\* BooleanExpressionParser(term_documents, rest_documents).eval_query(newq):
\* OR binds loosest, then AND, then NOT; a bare token is a term.
RECURSIVE eval_query(_)
eval_query(toks) ==
  IF Positions(toks, "OR") # {}
  THEN LET i == First(Positions(toks, "OR"))
           l == eval_query(SubSeq(toks, 1, i - 1))
           r == eval_query(SubSeq(toks, i + 1, Len(toks)))
       IN IF l.kind = "raise" THEN l ELSE IF r.kind = "raise" THEN r ELSE Ok(l.val \cup r.val)
  ELSE IF Positions(toks, "AND") # {}
  THEN LET i == First(Positions(toks, "AND"))
           l == eval_query(SubSeq(toks, 1, i - 1))
           r == eval_query(SubSeq(toks, i + 1, Len(toks)))
       IN IF l.kind = "raise" THEN l ELSE IF r.kind = "raise" THEN r ELSE Ok(l.val \cap r.val)
  ELSE IF Head(toks) = "NOT"
  THEN LET a == eval_query(Tail(toks))
       IN IF a.kind = "raise" THEN a ELSE Ok(rest_documents(a.val))
  ELSE term_documents(Head(toks))

processquery_boolean(q) == eval_query(q)

ProcessQueryBoolean(q) ==
  /\ LET r == processquery_boolean(q)
     IN call' = [NoCall EXCEPT !.op = "processquery_boolean", !.q = q,
                               !.ret = IF r.kind = "ok" THEN RetDocs(r.val) ELSE RetRaise(r)]
  /\ UNCHANGED <<index, documents, mInvertedIndex, mDocuments>>

(***************************************************************************)
(* Collection.processquery_vector                                          *)
(***************************************************************************)
\* math.log(1 + n / m) for integers n >= 0, m >= 1: ln((m + n) / m)
log1p_ratio(n, m) == log(m + n) - log(m)

\* S[doc] += v on the defaultdict(float) S
AddScore(S, doc, v) ==
  IF doc \in Keys(S)
  THEN [i \in 1..Len(S) |-> IF S[i].doc = doc THEN [doc |-> doc, score |-> S[i].score + v] ELSE S[i]]
  ELSE Append(S, [doc |-> doc, score |-> v])

RECURSIVE add_postings(_, _, _)
add_postings(S, entries, idf_t) ==
  IF entries = << >> THEN S
  ELSE add_postings(AddScore(S, Head(entries).doc, Head(entries).count * idf_t),
                    Tail(entries), idf_t)

\* the loop over q_tokens (lines 139-143)
RECURSIVE score_terms(_, _)
score_terms(q_tokens, S) ==
  IF q_tokens = << >> THEN Ok(S)
  ELSE IF get_index_count = 0 THEN Raise("ZeroDivisionError", 140)
  ELSE LET idf_t == log1p_ratio(get_documents_count, get_index_count)
           ans   == get_documents_for_term(Head(q_tokens))
       IN IF ans.kind = "raise" THEN ans
          ELSE score_terms(Tail(q_tokens), add_postings(S, ans.val, idf_t))

\* the loop over S.keys() (lines 145-146), from position i on
RECURSIVE normalize(_, _)
normalize(S, i) ==
  IF i > Len(S) THEN Ok(S)
  ELSE LET l == get_document_L_d(S[i].doc)
       IN IF l.kind = "raise" THEN l
          ELSE IF l.val = 0 THEN Raise("ZeroDivisionError", 146)
          ELSE normalize([S EXCEPT ![i].score = (@ * 1000) \div l.val], i + 1)

AtLeast(S, above) == SelectSeq(S, LAMBDA e : e.score >= above)

S_passed(S, above) == IF above > 0 THEN AtLeast(S, above) ELSE S

RemoveAt(seq, i) == SubSeq(seq, 1, i - 1) \o SubSeq(seq, i + 1, Len(seq))

\* heapq.nsmallest(n, seq, key=operator.itemgetter(1))
RECURSIVE nsmallest(_, _)
nsmallest(n, seq) ==
  IF n <= 0 \/ seq = << >> THEN << >>
  ELSE LET i == First({ j \in 1..Len(seq) : \A k \in 1..Len(seq) : seq[j].score <= seq[k].score })
       IN <<seq[i]>> \o nsmallest(n - 1, RemoveAt(seq, i))

\* heapq.nlargest(n, seq, key=operator.itemgetter(1)):
\* sorted(seq, key=key, reverse=True)[:n], equal keys in their order in seq
RECURSIVE nlargest(_, _)
nlargest(n, seq) ==
  IF n <= 0 \/ seq = << >> THEN << >>
  ELSE LET i == First({ j \in 1..Len(seq) : \A k \in 1..Len(seq) : seq[j].score >= seq[k].score })
       IN <<seq[i]>> \o nlargest(n - 1, RemoveAt(seq, i))

processquery_vector(q_tokens, above, top) ==
  LET scored == score_terms(q_tokens, << >>)
  IN IF scored.kind = "raise" THEN scored
     ELSE LET S == normalize(scored.val, 1)
          IN IF S.kind = "raise" THEN S
             ELSE IF top < 0 THEN Ok(S_passed(S.val, above))
             ELSE Ok(nlargest(top, S_passed(S.val, above)))

ProcessQueryVector(q, above, top) ==
  /\ LET r == processquery_vector(q, above, top)
     IN call' = [NoCall EXCEPT !.op = "processquery_vector", !.q = q, !.above = above,
                               !.top = top,
                               !.ret = IF r.kind = "ok" THEN RetPairs(r.val) ELSE RetRaise(r)]
  /\ UNCHANGED <<index, documents, mInvertedIndex, mDocuments>>

Init ==
  /\ index = << >>
  /\ documents = << >>
  /\ mInvertedIndex = << >>
  /\ mDocuments = << >>
  /\ call = NoCall

Next ==
  \/ \E d \in Docs : ReadDocument(d)
  \/ FlushToMongo
  \/ \E q \in BooleanQueries : ProcessQueryBoolean(q)
  \/ \E q \in VectorQueries, above \in Aboves, top \in Tops : ProcessQueryVector(q, above, top)

Spec == Init /\ [][Next]_vars

(***************************************************************************)
(* Properties                                                              *)
(***************************************************************************)
\* The documents that have a norm record in the store.
IndexedDocs == Keys(mDocuments)

\* The terms of a document's text.
TermsOf(d) == { tokenize(d)[i].term : i \in 1..Len(tokenize(d)) }

NoDuplicateDoc(seq) == \A i, j \in 1..Len(seq) : i # j => seq[i].doc # seq[j].doc

\* C1: in a boolean query made once everything read has been flushed, the
\* complement primitive rest_documents returns, for every document set S,
\* exactly the indexed (flushed) documents that are not in S; with docA
\* ("cat dog cat") and docB ("dog") indexed, NOT cat yields {docB}.
C1_ComplementOverIndexed ==
  (call.op = "processquery_boolean" /\ documents = << >>) =>
    /\ \A S \in SUBSET Docs : rest_documents(S) = IndexedDocs \ S
    /\ (call.q = <<"NOT", "cat">> /\ IndexedDocs = {"docA", "docB"}) =>
         (call.ret.kind = "ok" /\ call.ret.docs = {"docB"})

\* C2: processquery_vector never raises because a query token has no entry
\* in the postings store.
C2_UnknownTokenNeverRaises ==
  call.op = "processquery_vector" => ~(call.ret.kind = "raise" /\ call.ret.err = "UnknownTerm")

\* C3: a flush keeps every posting and every norm that was in memory just
\* before it, and leaves the store unchanged only when both tables were empty.
C3_FlushKeepsEverything ==
  [][ call'.op = "flush_to_mongo" =>
        /\ \A t \in DOMAIN index :
              /\ t \in DOMAIN mInvertedIndex'
              /\ Range(index[t]) \subseteq Range(mInvertedIndex'[t])
        /\ Range(documents) \subseteq Range(mDocuments')
        /\ (mInvertedIndex' = mInvertedIndex /\ mDocuments' = mDocuments) =>
             (DOMAIN index = {} /\ documents = << >>) ]_vars

\* C4: the store holds at most one posting per (term, document) pair and at
\* most one norm record per document.
C4_AtMostOncePerDocument ==
  /\ \A t \in DOMAIN mInvertedIndex : NoDuplicateDoc(mInvertedIndex[t])
  /\ NoDuplicateDoc(mDocuments)

\* C5: get_documents_count is the number of documents flushed and
\* get_index_count the number of distinct terms flushed (so that the idf
\* argument is 1 + documents / terms).
C5_CountsAreDocumentsAndTerms ==
  /\ get_documents_count = Cardinality(IndexedDocs)
  /\ get_index_count = Cardinality(DOMAIN mInvertedIndex)

\* C6: a vector query with top = K >= 0 returns at most K pairs, each one a
\* pair of the result of the same query and threshold with top = -1, and no
\* pair left out scores strictly higher than a pair returned.
C6_TopKIsBestSubset ==
  (call.op = "processquery_vector" /\ call.top >= 0 /\ call.ret.kind = "ok") =>
    LET all == processquery_vector(call.q, call.above, -1)
        got == call.ret.pairs
    IN /\ all.kind = "ok"
       /\ Len(got) <= call.top
       /\ Range(got) \subseteq Range(all.val)
       /\ \A e \in Range(all.val) \ Range(got) : \A g \in Range(got) : e.score <= g.score

\* A top = 1 query that returned one pair and left a lower-scoring one out.
C6_Witness ==
  /\ call.op = "processquery_vector" /\ call.top = 1 /\ call.ret.kind = "ok"
  /\ Len(call.ret.pairs) = 1
  /\ LET all == processquery_vector(call.q, call.above, -1)
     IN all.kind = "ok" /\ \E e \in Range(all.val) : e.score < call.ret.pairs[1].score

\* C7: read_document(d) of a document already in the in-memory Norm Table
\* changes neither the Norm Table nor the Posting Table.
C7_RereadIsNoOp ==
  [][ (call'.op = "read_document" /\ call'.d \in Keys(documents)) =>
        (index' = index /\ documents' = documents) ]_vars

\* A read of a document of the current batch that took the no-op branch.
C7_Witness ==
  /\ call.op = "read_document" /\ call.skipped
  /\ call.d \in Keys(documents) /\ tokenize(call.d) # << >>

\* C8: every document of the in-memory Norm Table has a posting in the
\* in-memory Posting Table, and every posting count is at least 1.
C8_NormHasPosting ==
  /\ \A d \in Keys(documents) : \E t \in DOMAIN index : d \in Keys(index[t])
  /\ \A t \in DOMAIN index : \A e \in Range(index[t]) : e.count >= 1

\* C9: every document of a stored posting list has a stored norm, the one
\* the norm lookup returns is positive, and no vector query fails in the
\* norm lookup or in the division by the norm.
C9_ScoredDocsHavePositiveNorm ==
  /\ \A t \in DOMAIN mInvertedIndex : \A d \in Keys(mInvertedIndex[t]) :
        LET l == get_document_L_d(d) IN l.kind = "ok" /\ l.val > 0
  /\ call.op = "processquery_vector" =>
        ~(call.ret.kind = "raise" /\ call.ret.line \in {93, 146})

\* A vector query that normalized scores while the store also holds a zero norm.
C9_Witness ==
  /\ call.op = "processquery_vector" /\ call.ret.kind = "ok" /\ call.ret.pairs # << >>
  /\ \E r \in Range(mDocuments) : r.L_d = 0

\* C10: get_only_documents_for_term never raises; it returns the empty set
\* for a term never indexed and otherwise the flushed documents whose text
\* has the term; a one-term boolean query returns just that.
C10_TermLookupTotal ==
  /\ \A t \in Terms :
        LET r == get_only_documents_for_term(t)
        IN /\ r.kind = "ok"
           /\ r.val = { d \in IndexedDocs : t \in TermsOf(d) }
           /\ (t \notin DOMAIN mInvertedIndex) => r.val = {}
  /\ (call.op = "processquery_boolean" /\ Len(call.q) = 1) =>
        /\ call.ret.kind = "ok"
        /\ call.ret.docs = { d \in IndexedDocs : call.q[1] \in TermsOf(d) }

\* A boolean query for a term never indexed, on a store that holds documents.
C10_Witness ==
  /\ call.op = "processquery_boolean" /\ call.q = <<"bird">>
  /\ call.ret.kind = "ok" /\ call.ret.docs = {}
  /\ {"docA", "docB"} \subseteq IndexedDocs
====
